---- MODULE Spec2Model ----
(***************************************************************************)
(* Load Combination Calculator for AS 3610.2 (src/app.py).                 *)
(*                                                                         *)
(* Numbers are exact fixed-point integers:                                 *)
(*   thickness                 tenths of a metre                           *)
(*   reinforcement_percentage  tenths of a percent                         *)
(*   loads (G_f, G_c, Q_*, W_*, F_w, P_c, I)   thousandths (kN/m2, kN/m)   *)
(*   load factors (1.35, 1.2, ...)             hundredths                  *)
(*   gamma_d                                   tenths (10 or 13)           *)
(*   design actions (vertical, horizontal)     millionths                  *)
(* A design action that the code does not multiply by gamma_d is brought   *)
(* to millionths by ToOut.                                                 *)
(***************************************************************************)
EXTENDS Integers, Sequences, FiniteSets, TLC

\* ------------------------------------------------------------------ bounds

\* Widget changes (script reruns caused by an edited input) in one session.
MaxEdits == 2
\* Each widget takes 0, its default, or its default plus up to MaxSteps steps.
MaxSteps == 1
\* Catalog indices asked for lie in -MaxIndex .. MaxIndex.
MaxIndex == 6

\* --------------------------------------------------------------- constants

Stages == {"1", "2", "3"}
\* Stage identifiers compute_combinations and the catalog do not define.
BadStages == {"0", "4"}
AllStages == Stages \cup BadStages

GammaCritical == 13
GammaNonCritical == 10
Gammas == {GammaNonCritical, GammaCritical}

\* Optional values of st.session_state: key missing, None, or a value.
Absent == [tag |-> "absent"]
None == [tag |-> "None"]
Some(v) == [tag |-> "value", v |-> v]

\* ------------------------------------------------- Concrete Load Estimator

base_density == 24

\* calculate_concrete_load with the reinforcement allowance not multiplied by
\* the thickness.
calculate_concrete_load_flat(thickness, reinforcement_percentage) ==
    LET reinforcement_load == 5 * reinforcement_percentage
        G_c == 100 * (base_density * thickness) + 10 * reinforcement_load
    IN  G_c

calculate_concrete_load(thickness, reinforcement_percentage) ==
    LET reinforcement_load == 5 * reinforcement_percentage   \* 0.5 * r, hundredths
        G_c == 100 * (base_density * thickness) + reinforcement_load * thickness
    IN  G_c

\* ------------------------------------------------------ Combination Engine

\* A value the code leaves unscaled by gamma_d, in millionths.
ToOut(x) == 10 * x

\* compute_combinations with one slip, by name:
\*   "coef"    comb_4 repeats comb_3's 1.2 G_f
\*   "gamma"   gamma_d applied to comb_8 as well
\*   "horiz"   comb_7's horizontal action left unscaled by gamma_d
\*   "else"    the last elif written as else
\*   "term"    comb_11 gains the 1.5 F_w term of comb_10
compute_combinations_slip(G_f, G_c, Q_w, Q_m, Q_h, W_s, W_u, F_w, Q_x, P_c, I, stage, gamma_d, slip) ==
    IF stage = "1" THEN
        LET comb_1 == <<ToOut(135 * G_f), 0>>
            comb_2 == <<gamma_d * (120 * G_f + 150 * Q_w + 150 * Q_m + 100 * W_s),
                        gamma_d * (150 * Q_h)>>
            comb_3 == <<ToOut(120 * G_f + 100 * W_u + 150 * F_w), 0>>
            comb_4 == <<ToOut((IF slip = "coef" THEN 120 ELSE 90) * G_f + 100 * W_u + 150 * F_w), 0>>
            comb_5 == <<ToOut(100 * G_f + 110 * I), 0>>
        IN  <<comb_1, comb_2, comb_3, comb_4, comb_5>>
    ELSE IF stage = "2" THEN
        LET comb_6 == <<gamma_d * (135 * G_f + 135 * G_c), 0>>
            comb_7 == <<gamma_d * (120 * G_f + 120 * G_c + 150 * Q_w + 150 * Q_m
                                   + 100 * W_s + 150 * F_w + 150 * Q_x + 100 * P_c),
                        IF slip = "horiz" THEN ToOut(150 * Q_h) ELSE gamma_d * (150 * Q_h)>>
            comb_8 == <<IF slip = "gamma" THEN gamma_d * (100 * G_f + 100 * G_c + 110 * I)
                        ELSE ToOut(100 * G_f + 100 * G_c + 110 * I), 0>>
        IN  <<comb_6, comb_7, comb_8>>
    ELSE IF stage = "3" \/ slip = "else" THEN
        LET comb_9 == <<gamma_d * (135 * G_f + 135 * G_c), 0>>
            comb_10 == <<gamma_d * (120 * G_f + 120 * G_c + 150 * Q_w + 150 * Q_m
                                    + 100 * W_s + 150 * F_w + 150 * Q_x + 100 * P_c),
                         gamma_d * (150 * Q_h)>>
            comb_11 == <<ToOut(120 * G_f + 120 * G_c + 100 * W_u
                               + (IF slip = "term" THEN 150 * F_w ELSE 0)), 0>>
            comb_12 == <<ToOut(100 * G_f + 100 * G_c + 110 * I), 0>>
        IN  <<comb_9, comb_10, comb_11, comb_12>>
    ELSE <<>>

compute_combinations_coef(G_f, G_c, Q_w, Q_m, Q_h, W_s, W_u, F_w, Q_x, P_c, I, stage, gamma_d) ==
    compute_combinations_slip(G_f, G_c, Q_w, Q_m, Q_h, W_s, W_u, F_w, Q_x, P_c, I, stage, gamma_d, "coef")

compute_combinations_gamma(G_f, G_c, Q_w, Q_m, Q_h, W_s, W_u, F_w, Q_x, P_c, I, stage, gamma_d) ==
    compute_combinations_slip(G_f, G_c, Q_w, Q_m, Q_h, W_s, W_u, F_w, Q_x, P_c, I, stage, gamma_d, "gamma")

compute_combinations_horiz(G_f, G_c, Q_w, Q_m, Q_h, W_s, W_u, F_w, Q_x, P_c, I, stage, gamma_d) ==
    compute_combinations_slip(G_f, G_c, Q_w, Q_m, Q_h, W_s, W_u, F_w, Q_x, P_c, I, stage, gamma_d, "horiz")

compute_combinations_else(G_f, G_c, Q_w, Q_m, Q_h, W_s, W_u, F_w, Q_x, P_c, I, stage, gamma_d) ==
    compute_combinations_slip(G_f, G_c, Q_w, Q_m, Q_h, W_s, W_u, F_w, Q_x, P_c, I, stage, gamma_d, "else")

compute_combinations_term(G_f, G_c, Q_w, Q_m, Q_h, W_s, W_u, F_w, Q_x, P_c, I, stage, gamma_d) ==
    compute_combinations_slip(G_f, G_c, Q_w, Q_m, Q_h, W_s, W_u, F_w, Q_x, P_c, I, stage, gamma_d, "term")

compute_combinations(G_f, G_c, Q_w, Q_m, Q_h, W_s, W_u, F_w, Q_x, P_c, I, stage, gamma_d) ==
    IF stage = "1" THEN
        LET comb_1 == <<ToOut(135 * G_f), 0>>
            comb_2 == <<gamma_d * (120 * G_f + 150 * Q_w + 150 * Q_m + 100 * W_s),
                        gamma_d * (150 * Q_h)>>
            comb_3 == <<ToOut(120 * G_f + 100 * W_u + 150 * F_w), 0>>
            comb_4 == <<ToOut(90 * G_f + 100 * W_u + 150 * F_w), 0>>
            comb_5 == <<ToOut(100 * G_f + 110 * I), 0>>
        IN  <<comb_1, comb_2, comb_3, comb_4, comb_5>>
    ELSE IF stage = "2" THEN
        LET comb_6 == <<gamma_d * (135 * G_f + 135 * G_c), 0>>
            comb_7 == <<gamma_d * (120 * G_f + 120 * G_c + 150 * Q_w + 150 * Q_m
                                   + 100 * W_s + 150 * F_w + 150 * Q_x + 100 * P_c),
                        gamma_d * (150 * Q_h)>>
            comb_8 == <<ToOut(100 * G_f + 100 * G_c + 110 * I), 0>>
        IN  <<comb_6, comb_7, comb_8>>
    ELSE IF stage = "3" THEN
        LET comb_9 == <<gamma_d * (135 * G_f + 135 * G_c), 0>>
            comb_10 == <<gamma_d * (120 * G_f + 120 * G_c + 150 * Q_w + 150 * Q_m
                                    + 100 * W_s + 150 * F_w + 150 * Q_x + 100 * P_c),
                         gamma_d * (150 * Q_h)>>
            comb_11 == <<ToOut(120 * G_f + 120 * G_c + 100 * W_u), 0>>
            comb_12 == <<ToOut(100 * G_f + 100 * G_c + 110 * I), 0>>
        IN  <<comb_9, comb_10, comb_11, comb_12>>
    ELSE <<>>

\* ----------------------------------------------------- Combination Catalog

\* One term of a label: the coefficient text as typed (a sequence of
\* characters, empty when the label shows none), the letter and its subscript.
Term(coef, letter, sub) == [coef |-> coef, letter |-> letter, sub |-> sub]

\* A formula label "N: term + term + ..." and the fallback "Combination N".
FormulaLabel(no, terms) == [kind |-> "formula", no |-> no, terms |-> terms]
GenericLabel(n) == [kind |-> "generic", text |-> "Combination " \o ToString(n)]

descriptions(stage) ==
    IF stage = "1" THEN <<
        FormulaLabel(1, <<Term(<<"1", ".", "3", "5">>, "G", "f")>>),
        FormulaLabel(2, <<Term(<<"1", ".", "2">>, "G", "f"),
                          Term(<<"1", ".", "5">>, "Q", "w"),
                          Term(<<"1", ".", "5">>, "Q", "m"),
                          Term(<<"1", ".", "5">>, "Q", "h"),
                          Term(<<"1">>, "W", "s")>>),
        FormulaLabel(3, <<Term(<<"1", ".", "2">>, "G", "f"),
                          Term(<<"1">>, "W", "u"),
                          Term(<<"1", ".", "5">>, "F", "w")>>),
        FormulaLabel(4, <<Term(<<"0", ".", "9">>, "G", "f"),
                          Term(<<"1">>, "W", "u"),
                          Term(<<"1", ".", "5">>, "F", "w")>>),
        FormulaLabel(5, <<Term(<<"1">>, "G", "f"),
                          Term(<<"1", ".", "1">>, "I", "")>>) >>
    ELSE IF stage = "2" THEN <<
        FormulaLabel(6, <<Term(<<"1", ".", "3", "5">>, "G", "f"),
                          Term(<<"1", ".", "3", "5">>, "G", "c")>>),
        FormulaLabel(7, <<Term(<<"1", ".", "2">>, "G", "f"),
                          Term(<<"1", ".", "2">>, "G", "c"),
                          Term(<<"1", ".", "5">>, "Q", "w"),
                          Term(<<"1", ".", "5">>, "Q", "m"),
                          Term(<<"1", ".", "5">>, "Q", "h"),
                          Term(<<"1">>, "W", "s"),
                          Term(<<"1", ".", "5">>, "F", "w"),
                          Term(<<"1", ".", "5">>, "Q", "x"),
                          Term(<<>>, "P", "c")>>),
        FormulaLabel(8, <<Term(<<"1">>, "G", "f"),
                          Term(<<"1">>, "G", "c"),
                          Term(<<"1", ".", "1">>, "I", "")>>) >>
    ELSE <<
        FormulaLabel(9, <<Term(<<"1", ".", "3", "5">>, "G", "f"),
                          Term(<<"1", ".", "3", "5">>, "G", "c")>>),
        FormulaLabel(10, <<Term(<<"1", ".", "2">>, "G", "f"),
                           Term(<<"1", ".", "2">>, "G", "c"),
                           Term(<<"1", ".", "5">>, "Q", "w"),
                           Term(<<"1", ".", "5">>, "Q", "m"),
                           Term(<<"1", ".", "5">>, "Q", "h"),
                           Term(<<"1">>, "W", "s"),
                           Term(<<"1", ".", "5">>, "F", "w"),
                           Term(<<"1", ".", "5">>, "Q", "x"),
                           Term(<<>>, "P", "c")>>),
        FormulaLabel(11, <<Term(<<"1", ".", "2">>, "G", "f"),
                           Term(<<"1", ".", "2">>, "G", "c"),
                           Term(<<"1", ".", "0">>, "W", "u")>>),
        FormulaLabel(12, <<Term(<<"1">>, "G", "f"),
                           Term(<<"1">>, "G", "c"),
                           Term(<<"1", ".", "1">>, "I", "")>>) >>

\* What a call gives back: a value, or the exception it raises.
Returned(v) == [raised |-> "none", value |-> v]
Raised(e) == [raised |-> e]

\* Python's xs[index] on a list: negative indices count from the end.
ListIndex(xs, index) ==
    IF index >= 0 /\ index < Len(xs) THEN Returned(xs[index + 1])
    ELSE IF index < 0 /\ index >= -Len(xs) THEN Returned(xs[Len(xs) + index + 1])
    ELSE Raised("IndexError")

get_combination_description(stage, index) ==
    IF stage \notin Stages THEN Raised("UnboundLocalError")
    ELSE IF index < Len(descriptions(stage)) THEN ListIndex(descriptions(stage), index)
    ELSE Returned(GenericLabel(index + 1))

\* ------------------------------------------------------------ presentation

\* The label as the string the catalog holds, in pieces: the coefficient
\* characters, the letter, and the subscript between <sub> and </sub>.
TermText(t) ==
    t.coef \o <<t.letter>> \o (IF t.sub = "" THEN <<>> ELSE <<"<sub>", t.sub, "</sub>">>)

RECURSIVE TermsText(_)
TermsText(ts) ==
    IF ts = <<>> THEN <<>>
    ELSE IF Len(ts) = 1 THEN TermText(ts[1])
    ELSE TermText(ts[1]) \o <<" + ">> \o TermsText(Tail(ts))

LabelText(label) ==
    IF label.kind = "generic" THEN <<label.text>>
    ELSE <<ToString(label.no), ": ">> \o TermsText(label.terms)

\* str.replace(piece, ""): every occurrence of the piece is dropped.
Replace(text, piece) == SelectSeq(text, LAMBDA c : c # piece)

\* f"{x:.2f}" of a design action (millionths): the text, given as its value in
\* hundredths, rounded to nearest (an exact tie to the even neighbour).
Format2(x) ==
    LET q == x \div 10000
        r == x % 10000
    IN  IF r > 5000 \/ (r = 5000 /\ q % 2 = 1) THEN q + 1 ELSE q

\* f"{gamma_d:.1f}": gamma_d is held in tenths already.
Format1(gamma_d) == gamma_d

\* get_combination_description for an index >= 0 of a defined stage, where it
\* raises nothing.
Description(stage, i) == get_combination_description(stage, i).value

\* The label texts of every row a table can have (and of the index after the
\* last), as the report shows them and as the page shows them.
MarkupText ==
    [stage \in Stages |->
        [i \in 0..Len(descriptions(stage)) |-> LabelText(Description(stage, i))]]

PlainText ==
    [stage \in Stages |->
        [i \in 0..Len(descriptions(stage)) |->
            Replace(Replace(MarkupText[stage][i], "<sub>"), "</sub>")]]

\* Lines 88-99 with the label taken from the next index (enumerate from 1).
create_results_dataframe_shifted(combinations, stage, gamma_d) ==
    [i \in 1..Len(combinations) |->
        [Combination |-> PlainText[stage][i],
         Vertical |-> Format2(combinations[i][1]),
         Horizontal |-> Format2(combinations[i][2]),
         gamma_d |-> Format1(gamma_d)]]

\* Lines 88-99: one row per combination, in list order (enumerate index i - 1).
create_results_dataframe(combinations, stage, gamma_d) ==
    [i \in 1..Len(combinations) |->
        [Combination |-> PlainText[stage][i - 1],
         Vertical |-> Format2(combinations[i][1]),
         Horizontal |-> Format2(combinations[i][2]),
         gamma_d |-> Format1(gamma_d)]]

\* ------------------------------------------------------------------ report

LOGO_URL == "LOGO_URL"
FALLBACK_LOGO_URL == "FALLBACK_LOGO_URL"
LogoPath == "company_logo.png"

\* What one requests.get and the write that follows can do:
\*   ok          status 200, content written to the file
\*   status      a status other than 200
\*   exception   requests.get raises (no connection, timeout)
\*   body_error  status 200, the file is opened, then reading or writing the
\*               streamed content raises
\*   unused      the URL is not asked for
Failures == {"status", "exception", "body_error"}
Outcomes == {"ok"} \cup Failures

\* company_logo.png in the working directory: no file, an empty or cut-off
\* file, or a complete image.
FileStates == {"absent", "partial", "image"}

\* The network during one download_logo call: the outcome at the primary URL
\* and, where it is asked for, at the fallback URL.
NetChoices == {<<"ok", "unused">>} \cup (Failures \X Outcomes)

\* Lines 105-113, one pass of the loop body for a URL with the given outcome.
Attempt(logo_file, file, outcome) ==
    IF outcome = "ok" THEN [logo_file |-> Some(LogoPath), file |-> "image", break |-> TRUE]
    ELSE IF outcome = "body_error"
         THEN [logo_file |-> Some(LogoPath), file |-> "partial", break |-> FALSE]
    ELSE [logo_file |-> logo_file, file |-> file, break |-> FALSE]

\* Lines 101-114. Gives the URLs asked, the file left on disk and the value.
download_logo(file, net) ==
    LET first == Attempt(None, file, net[1])
        last == IF first.break THEN first ELSE Attempt(first.logo_file, first.file, net[2])
    IN  [raised |-> "none",
         asked |-> IF first.break THEN <<LOGO_URL>> ELSE <<LOGO_URL, FALLBACK_LOGO_URL>>,
         file |-> last.file,
         value |-> IF last.logo_file # None /\ last.file # "absent"
                   THEN last.logo_file ELSE None]

\* Lines 354-376: Image(...).drawOn draws a complete image only; what it
\* raises on anything else is swallowed.
draw_header_footer(file, net) ==
    LET logo == download_logo(file, net)
    IN  [raised |-> "none",
         logo_file |-> logo.value,
         logo_drawn |-> logo.value # None /\ logo.file = "image",
         company |-> "tekhne Consulting Engineers",
         file |-> logo.file]

\* Paragraph markup in a text: the opening and closing tags must pair up.
RECURSIVE OpenTags(_)
OpenTags(text) ==
    IF text = <<>> THEN 0
    ELSE (IF text[1] = "<b>" THEN 1 ELSE IF text[1] = "</b>" THEN -1 ELSE 0) + OpenTags(Tail(text))

WellFormed(text) == OpenTags(text) = 0

\* Lines 293-299 and 327-333: the rows under the header row of a report table.
ReportRows(combinations, stage) ==
    [i \in 1..Len(combinations) |->
        [Combination |-> MarkupText[stage][i - 1],
         Vertical |-> Format2(combinations[i][1]),
         Horizontal |-> Format2(combinations[i][2])]]

\* Lines 275-349: the stages of the report, in the order "1", "2", "3".
RECURSIVE ReportStages(_, _)
ReportStages(order, results) ==
    IF order = <<>> THEN <<>>
    ELSE IF Head(order) \notin DOMAIN results THEN ReportStages(Tail(order), results)
    ELSE <<[stage |-> Head(order),
            title |-> results[Head(order)].description,
            critical |-> ReportRows(results[Head(order)].critical, Head(order)),
            non_critical |-> ReportRows(results[Head(order)].non_critical, Head(order))]>>
         \o ReportStages(Tail(order), results)

\* Lines 116-381. Paragraph(project_info) raises on markup that does not pair
\* up; otherwise doc.build lays the document out and has draw_header_footer
\* draw the page header (one page here), whose outcome is `header`. The
\* result tables of the document are ReportStages(<<"1", "2", "3">>, results).
generate_pdf_report(inputs, results, project_number, project_name, file, header) ==
    IF ~WellFormed(project_name) \/ ~WellFormed(project_number)
    THEN [raised |-> "ValueError", file |-> file]
    ELSE [raised |-> "none",
          file |-> header.file,
          value |-> [project_name |-> project_name,
                     project_number |-> project_number,
                     G_c |-> Format2(1000 * inputs.G_c),
                     logo_drawn |-> header.logo_drawn]]

\* ------------------------------------------------------------ the session

\* The sidebar's number inputs, in the order main() creates them.
Fields == {"G_f", "thickness", "reinforcement_percentage", "Q_w1", "Q_w2", "Q_w3",
           "Q_m", "Q_h", "W_s", "W_u", "F_w", "Q_x", "P_c", "I"}

\* value= of each number input.
WidgetDefault ==
    [G_f |-> 600, thickness |-> 2, reinforcement_percentage |-> 20,
     Q_w1 |-> 1000, Q_w2 |-> 2000, Q_w3 |-> 1000, Q_m |-> 2500, Q_h |-> 0,
     W_s |-> 0, W_u |-> 0, F_w |-> 0, Q_x |-> 0, P_c |-> 0, I |-> 0]

\* The increment an edit moves a number input by (thickness: two clicks of 0.05).
WidgetStep ==
    [G_f |-> 100, thickness |-> 1, reinforcement_percentage |-> 5,
     Q_w1 |-> 100, Q_w2 |-> 100, Q_w3 |-> 100, Q_m |-> 100, Q_h |-> 100,
     W_s |-> 100, W_u |-> 100, F_w |-> 100, Q_x |-> 100, P_c |-> 100, I |-> 100]

\* The values an input is given in this model.
WidgetVals(f) == {0} \cup {WidgetDefault[f] + k * WidgetStep[f] : k \in 0..MaxSteps}

VARIABLES
    widgets,        \* current value of every number input
    edits,          \* number of widget changes so far (bounded by MaxEdits)
    session_state,  \* st.session_state: [results, inputs]
    last_request,   \* history: the most recent Calculate request, its inputs and engine calls
    call,           \* the most recent direct call of a function and what it gave
    project_name,   \* the "Project Name" text input
    logo_file,      \* company_logo.png on disk
    screen,         \* what the most recent script run did and put on the page, in order
    network         \* environment: what the two logo URLs answer when asked

vars == <<widgets, edits, session_state, last_request, call, project_name, logo_file, screen,
          network>>

\* value= of the project text inputs; project_number is left at its default.
ProjectNumber == <<"PRJ-001">>
ProjectNameDefault == <<"Sample Project">>
\* The names typed in this model: the default, and one with a tag left open.
ProjectNames == {ProjectNameDefault, <<"<b>", "Tower A">>}

\* Lines 387-390: the keys are created once per session, never reset.
InitSessionState(ss) ==
    [results |-> IF ss.results = Absent THEN None ELSE ss.results,
     inputs |-> IF ss.inputs = Absent THEN None ELSE ss.inputs]

\* MakeInputs with the estimator's two arguments in the wrong order.
MakeInputs_swapped(w) ==
    [G_f |-> w.G_f,
     thickness |-> w.thickness,
     reinforcement_percentage |-> w.reinforcement_percentage,
     G_c |-> calculate_concrete_load(w.reinforcement_percentage, w.thickness),
     Q_w1 |-> w.Q_w1, Q_w2 |-> w.Q_w2, Q_w3 |-> w.Q_w3,
     Q_m |-> w.Q_m, Q_h |-> w.Q_h, W_s |-> w.W_s, W_u |-> w.W_u,
     F_w |-> w.F_w, Q_x |-> w.Q_x, P_c |-> w.P_c, I |-> w.I]

\* Lines 422-438: the input record of a request.
MakeInputs(w) ==
    [G_f |-> w.G_f,
     thickness |-> w.thickness,
     reinforcement_percentage |-> w.reinforcement_percentage,
     G_c |-> calculate_concrete_load(w.thickness, w.reinforcement_percentage),
     Q_w1 |-> w.Q_w1, Q_w2 |-> w.Q_w2, Q_w3 |-> w.Q_w3,
     Q_m |-> w.Q_m, Q_h |-> w.Q_h, W_s |-> w.W_s, W_u |-> w.W_u,
     F_w |-> w.F_w, Q_x |-> w.Q_x, P_c |-> w.P_c, I |-> w.I]

\* stages with stage 3's row copied from stage 1 and its Q_w left as Q_w1.
stages_copied(w) ==
    [stage \in Stages |->
        IF stage = "1" THEN [Q_w |-> w.Q_w1, description |-> "Prior to concrete placement"]
        ELSE IF stage = "2" THEN [Q_w |-> w.Q_w2, description |-> "During concrete placement"]
        ELSE [Q_w |-> w.Q_w1, description |-> "After concrete placement"]]

\* Lines 442-446.
stages(w) ==
    [stage \in Stages |->
        IF stage = "1" THEN [Q_w |-> w.Q_w1, description |-> "Prior to concrete placement"]
        ELSE IF stage = "2" THEN [Q_w |-> w.Q_w2, description |-> "During concrete placement"]
        ELSE [Q_w |-> w.Q_w3, description |-> "After concrete placement"]]

\* The arguments of one compute_combinations call of the loop at lines 448-461.
EngineArgs(w, inputs, stage, gamma_d) ==
    [G_f |-> w.G_f, G_c |-> inputs.G_c, Q_w |-> stages(w)[stage].Q_w, Q_m |-> w.Q_m,
     Q_h |-> w.Q_h, W_s |-> w.W_s, W_u |-> w.W_u, F_w |-> w.F_w, Q_x |-> w.Q_x,
     P_c |-> w.P_c, I |-> w.I, stage |-> stage, gamma_d |-> gamma_d]

Compute(a) ==
    compute_combinations(a.G_f, a.G_c, a.Q_w, a.Q_m, a.Q_h, a.W_s, a.W_u,
                         a.F_w, a.Q_x, a.P_c, a.I, a.stage, a.gamma_d)

\* Lines 441-467: the result structure of a request.
ComputeResults(w, inputs) ==
    [stage \in DOMAIN stages(w) |->
        [description |-> stages(w)[stage].description,
         critical |-> Compute(EngineArgs(w, inputs, stage, GammaCritical)),
         non_critical |-> Compute(EngineArgs(w, inputs, stage, GammaNonCritical))]]

\* The engine calls of a request, in the order the loop makes them.
EngineCalls(w, inputs) ==
    <<EngineArgs(w, inputs, "1", GammaCritical), EngineArgs(w, inputs, "1", GammaNonCritical),
      EngineArgs(w, inputs, "2", GammaCritical), EngineArgs(w, inputs, "2", GammaNonCritical),
      EngineArgs(w, inputs, "3", GammaCritical), EngineArgs(w, inputs, "3", GammaNonCritical)>>

\* StoreRequest that keeps the inputs of an earlier request when there are any.
StoreRequest_keep(ss, results, inputs) ==
    [results |-> Some(results),
     inputs |-> IF ss.inputs = None THEN Some(inputs) ELSE ss.inputs]

\* Lines 469-471.
StoreRequest(ss, results, inputs) ==
    [results |-> Some(results), inputs |-> Some(inputs)]

\* `if x:` on a session value: None is false, a non-empty dict is true.
Truthy(x) == x.tag = "value"

\* One element put on the page.
Shown(kind) == [kind |-> kind]

\* Lines 477-492: the st.dataframe calls, stage by stage, critical first; each
\* shows create_results_dataframe(data[members], stage, gamma_d).
RECURSIVE DisplayStages(_, _)
DisplayStages(order, results) ==
    IF order = <<>> THEN <<>>
    ELSE IF Head(order) \notin DOMAIN results THEN DisplayStages(Tail(order), results)
    ELSE <<[kind |-> "dataframe", stage |-> Head(order), members |-> "critical",
            gamma_d |-> GammaCritical],
           [kind |-> "dataframe", stage |-> Head(order), members |-> "non_critical",
            gamma_d |-> GammaNonCritical]>>
         \o DisplayStages(Tail(order), results)

\* Whether the run reaches doc.build, and so the network.
BuildsReport(ss, pname) ==
    Truthy(ss.results) /\ Truthy(ss.inputs) /\ WellFormed(pname) /\ WellFormed(ProjectNumber)

\* The page header of the run's report; none is drawn without doc.build.
RunHeader(ss, pname, file, net) ==
    IF BuildsReport(ss, pname) THEN draw_header_footer(file, net)
    ELSE [raised |-> "none", logo_file |-> None, logo_drawn |-> FALSE,
          company |-> "tekhne Consulting Engineers", file |-> file]

\* Render with lines 495-507 moved above the tables.
Render_report_first(ss, stored, pname, file, header) ==
    LET before == IF stored THEN <<Shown("store")>> ELSE <<>>
    IN  IF ~Truthy(ss.results)
        THEN [file |-> file,
              screen |-> [events |-> before \o <<Shown("gridwork")>>,
                          report |-> [tag |-> "none"]]]
        ELSE LET tables == DisplayStages(<<"1", "2", "3">>, ss.results.v)
                 pdf == generate_pdf_report(ss.inputs.v, ss.results.v, ProjectNumber, pname,
                                            file, header)
             IN  IF ~Truthy(ss.inputs)
                 THEN [file |-> file,
                       screen |-> [events |-> before \o tables \o <<Shown("gridwork")>>,
                                   report |-> [tag |-> "none"]]]
                 ELSE IF pdf.raised # "none"
                 THEN [file |-> pdf.file,
                       screen |-> [events |-> before \o <<Shown("report"), Shown("exception")>>,
                                   report |-> [tag |-> "raised", error |-> pdf.raised]]]
                 ELSE [file |-> pdf.file,
                       screen |-> [events |-> before \o <<Shown("report"), Shown("link")>>
                                              \o tables \o <<Shown("gridwork")>>,
                                   report |-> [tag |-> "link"]]]

\* Lines 473-541, the part of a script run after the sidebar: the tables, the
\* report and its download link, then the gridwork section. An exception out
\* of generate_pdf_report ends the run; what was shown before it stays.
Render(ss, stored, pname, file, header) ==
    LET before == IF stored THEN <<Shown("store")>> ELSE <<>>
    IN  IF ~Truthy(ss.results)
        THEN [file |-> file,
              screen |-> [events |-> before \o <<Shown("gridwork")>>,
                          report |-> [tag |-> "none"]]]
        ELSE LET tables == DisplayStages(<<"1", "2", "3">>, ss.results.v)
                 pdf == generate_pdf_report(ss.inputs.v, ss.results.v, ProjectNumber, pname,
                                            file, header)
             IN  IF ~Truthy(ss.inputs)
                 THEN [file |-> file,
                       screen |-> [events |-> before \o tables \o <<Shown("gridwork")>>,
                                   report |-> [tag |-> "none"]]]
                 ELSE IF pdf.raised # "none"
                 THEN [file |-> pdf.file,
                       screen |-> [events |-> before \o tables
                                              \o <<Shown("report"), Shown("exception")>>,
                                   report |-> [tag |-> "raised", error |-> pdf.raised]]]
                 ELSE [file |-> pdf.file,
                       screen |-> [events |-> before \o tables
                                              \o <<Shown("report"), Shown("link"),
                                                   Shown("gridwork")>>,
                                   report |-> [tag |-> "link"]]]

\* The rest of a script run once the session holds ss.
Finish(ss, stored, pname) ==
    LET page == Render(ss, stored, pname, logo_file,
                       RunHeader(ss, pname, logo_file, network))
    IN  /\ screen' = page.screen
        /\ logo_file' = page.file

Init ==
    /\ widgets = WidgetDefault
    /\ edits = 0
    /\ session_state = [results |-> Absent, inputs |-> Absent]
    /\ last_request = None
    /\ call = [fn |-> "none"]
    /\ project_name = ProjectNameDefault
    /\ logo_file = "absent"
    /\ screen = [events |-> <<>>, report |-> [tag |-> "none"]]
    /\ network = <<"exception", "exception">>

\* The widgets exist once the script has run.
Rendered == session_state.results # Absent /\ session_state.inputs # Absent

\* A script run with no input changed and the button not pressed (the first
\* page load, or a rerun caused by a widget outside the sidebar).
RunLoad ==
    /\ session_state' = InitSessionState(session_state)
    /\ Finish(InitSessionState(session_state), FALSE, project_name)
    /\ UNCHANGED <<widgets, edits, last_request, call, project_name, network>>

\* A script run caused by changing one number input; the button is not pressed.
RunEdit(f, v) ==
    /\ Rendered
    /\ edits < MaxEdits
    /\ v \in WidgetVals(f)
    /\ v # widgets[f]
    /\ widgets' = [widgets EXCEPT ![f] = v]
    /\ edits' = edits + 1
    /\ session_state' = InitSessionState(session_state)
    /\ Finish(InitSessionState(session_state), FALSE, project_name)
    /\ UNCHANGED <<last_request, call, project_name, network>>

\* A script run caused by typing another project name; the button is not pressed.
RunEditProject(name) ==
    /\ Rendered
    /\ edits < MaxEdits
    /\ name \in ProjectNames
    /\ name # project_name
    /\ project_name' = name
    /\ edits' = edits + 1
    /\ session_state' = InitSessionState(session_state)
    /\ Finish(InitSessionState(session_state), FALSE, name)
    /\ UNCHANGED <<widgets, last_request, call, network>>

\* A script run caused by pressing "Calculate Load Combinations".
RunCalculate ==
    /\ Rendered
    /\ LET ss == InitSessionState(session_state)
           inputs == MakeInputs(widgets)
           results == ComputeResults(widgets, inputs)
       IN  /\ session_state' = StoreRequest(ss, results, inputs)
           /\ last_request' = Some([widgets |-> widgets,
                                    calls |-> EngineCalls(widgets, inputs)])
           /\ Finish(StoreRequest(ss, results, inputs), TRUE, project_name)
    /\ UNCHANGED <<widgets, edits, call, project_name, network>>

\* Sessions in which the logo URLs answer as Init leaves them.
Next ==
    \/ RunLoad
    \/ \E f \in Fields : \E v \in WidgetVals(f) : RunEdit(f, v)
    \/ \E name \in ProjectNames : RunEditProject(name)
    \/ RunCalculate

Spec == Init /\ [][Next]_vars

\* ------------------------------------------- the core functions on their own

\* The engine's load arguments drawn from the current inputs; Q_w is the
\* stage's own worker load (Q_w1 for an undefined stage).
ArgsOf(w, stage, gamma_d) ==
    [G_f |-> w.G_f,
     G_c |-> calculate_concrete_load(w.thickness, w.reinforcement_percentage),
     Q_w |-> IF stage = "2" THEN w.Q_w2 ELSE IF stage = "3" THEN w.Q_w3 ELSE w.Q_w1,
     Q_m |-> w.Q_m, Q_h |-> w.Q_h, W_s |-> w.W_s, W_u |-> w.W_u, F_w |-> w.F_w,
     Q_x |-> w.Q_x, P_c |-> w.P_c, I |-> w.I, stage |-> stage, gamma_d |-> gamma_d]

\* The inputs are drawn first (DrawInput), then one function is applied to them.
NotCalled == call.fn = "none"

DrawInput(f, v) == NotCalled /\ RunEdit(f, v)

CallEstimate ==
    /\ Rendered /\ NotCalled
    /\ call' = [fn |-> "calculate_concrete_load",
                thickness |-> widgets.thickness,
                reinforcement_percentage |-> widgets.reinforcement_percentage,
                out |-> Returned(calculate_concrete_load(widgets.thickness,
                                                         widgets.reinforcement_percentage))]
    /\ UNCHANGED <<widgets, edits, session_state, last_request, project_name, logo_file, screen, network>>

CallCompute(stage, gamma_d) ==
    /\ Rendered /\ NotCalled
    /\ call' = [fn |-> "compute_combinations",
                args |-> ArgsOf(widgets, stage, gamma_d),
                out |-> Returned(Compute(ArgsOf(widgets, stage, gamma_d)))]
    /\ UNCHANGED <<widgets, edits, session_state, last_request, project_name, logo_file, screen, network>>

CallDescribe(stage, index) ==
    /\ Rendered /\ NotCalled
    /\ call' = [fn |-> "get_combination_description",
                stage |-> stage, index |-> index,
                out |-> get_combination_description(stage, index)]
    /\ UNCHANGED <<widgets, edits, session_state, last_request, project_name, logo_file, screen, network>>

NextFn ==
    \/ RunLoad
    \/ \E f \in Fields : \E v \in WidgetVals(f) : DrawInput(f, v)
    \/ CallEstimate
    \/ \E stage \in AllStages : \E gamma_d \in Gammas : CallCompute(stage, gamma_d)
    \/ \E stage \in AllStages : \E index \in -MaxIndex..MaxIndex : CallDescribe(stage, index)

SpecFn == Init /\ [][NextFn]_vars

\* ------------------------------------------------ the report on its own

\* The environment: the URLs start to answer otherwise.
NetworkChanges(net) ==
    /\ net \in NetChoices
    /\ net # network
    /\ network' = net
    /\ UNCHANGED <<widgets, edits, session_state, last_request, call, project_name,
                   logo_file, screen>>

\* download_logo called with the file and the network as they are.
CallDownloadLogo ==
    /\ Rendered
    /\ call' = [fn |-> "download_logo", file |-> logo_file, net |-> network,
                out |-> download_logo(logo_file, network)]
    /\ logo_file' = download_logo(logo_file, network).file
    /\ UNCHANGED <<widgets, edits, session_state, last_request, project_name, screen, network>>

\* draw_header_footer called for a page, as doc.build does.
CallDrawHeaderFooter ==
    /\ Rendered
    /\ call' = [fn |-> "draw_header_footer", file |-> logo_file, net |-> network,
                logo |-> download_logo(logo_file, network),
                out |-> draw_header_footer(logo_file, network)]
    /\ logo_file' = draw_header_footer(logo_file, network).file
    /\ UNCHANGED <<widgets, edits, session_state, last_request, project_name, screen, network>>

\* generate_pdf_report called on what the session holds, as line 497 does.
CallGenerateReport ==
    /\ Truthy(session_state.results) /\ Truthy(session_state.inputs)
    /\ LET header == RunHeader(session_state, project_name, logo_file, network)
           pdf == generate_pdf_report(session_state.inputs.v, session_state.results.v,
                                      ProjectNumber, project_name, logo_file, header)
       IN  /\ call' = [fn |-> "generate_pdf_report", file |-> logo_file, net |-> network,
                       project_name |-> project_name,
                       logo |-> download_logo(logo_file, network),
                       out |-> pdf]
           /\ logo_file' = pdf.file
    /\ UNCHANGED <<widgets, edits, session_state, last_request, project_name, screen, network>>

\* Sessions with the default loads, a network that changes, and the report
\* functions called on their own.
NextReport ==
    \/ RunLoad
    \/ \E name \in ProjectNames : RunEditProject(name)
    \/ RunCalculate
    \/ \E net \in NetChoices : NetworkChanges(net)
    \/ CallDownloadLogo
    \/ CallDrawHeaderFooter
    \/ CallGenerateReport

SpecReport == Init /\ [][NextReport]_vars

\* ===================================================================
\* Properties of the core functions (SpecFn)
\* ===================================================================

LoadTerms == {"G_f", "G_c", "Q_w", "Q_m", "Q_h", "W_s", "W_u", "F_w", "Q_x", "P_c", "I"}

CalledCompute == call.fn = "compute_combinations"
CalledEstimate == call.fn = "calculate_concrete_load"
CalledDescribe == call.fn = "get_combination_description"

\* Section 4.2 of the specification as tables: per combination, whether
\* gamma_d multiplies it, and the factored terms (factor in hundredths) of the
\* vertical and of the horizontal action.
Section42(stage) ==
    IF stage = "1" THEN <<
        [gamma |-> FALSE, v |-> <<<<135, "G_f">>>>, h |-> <<>>],
        [gamma |-> TRUE,  v |-> <<<<120, "G_f">>, <<150, "Q_w">>, <<150, "Q_m">>, <<100, "W_s">>>>,
                          h |-> <<<<150, "Q_h">>>>],
        [gamma |-> FALSE, v |-> <<<<120, "G_f">>, <<100, "W_u">>, <<150, "F_w">>>>, h |-> <<>>],
        [gamma |-> FALSE, v |-> <<<<90, "G_f">>, <<100, "W_u">>, <<150, "F_w">>>>, h |-> <<>>],
        [gamma |-> FALSE, v |-> <<<<100, "G_f">>, <<110, "I">>>>, h |-> <<>>] >>
    ELSE IF stage = "2" THEN <<
        [gamma |-> TRUE,  v |-> <<<<135, "G_f">>, <<135, "G_c">>>>, h |-> <<>>],
        [gamma |-> TRUE,  v |-> <<<<120, "G_f">>, <<120, "G_c">>, <<150, "Q_w">>, <<150, "Q_m">>,
                                  <<100, "W_s">>, <<150, "F_w">>, <<150, "Q_x">>, <<100, "P_c">>>>,
                          h |-> <<<<150, "Q_h">>>>],
        [gamma |-> FALSE, v |-> <<<<100, "G_f">>, <<100, "G_c">>, <<110, "I">>>>, h |-> <<>>] >>
    ELSE <<
        [gamma |-> TRUE,  v |-> <<<<135, "G_f">>, <<135, "G_c">>>>, h |-> <<>>],
        [gamma |-> TRUE,  v |-> <<<<120, "G_f">>, <<120, "G_c">>, <<150, "Q_w">>, <<150, "Q_m">>,
                                  <<100, "W_s">>, <<150, "F_w">>, <<150, "Q_x">>, <<100, "P_c">>>>,
                          h |-> <<<<150, "Q_h">>>>],
        [gamma |-> FALSE, v |-> <<<<120, "G_f">>, <<120, "G_c">>, <<100, "W_u">>>>, h |-> <<>>],
        [gamma |-> FALSE, v |-> <<<<100, "G_f">>, <<100, "G_c">>, <<110, "I">>>>, h |-> <<>>] >>

Section42Count(stage) == IF stage = "1" THEN 5 ELSE IF stage = "2" THEN 3 ELSE 4

RECURSIVE WeightedSum(_, _)
WeightedSum(ts, a) ==
    IF ts = <<>> THEN 0 ELSE ts[1][1] * a[ts[1][2]] + WeightedSum(Tail(ts), a)

Section42Value(f, a) ==
    LET g == IF f.gamma THEN a.gamma_d ELSE 10
    IN  <<g * WeightedSum(f.v, a), g * WeightedSum(f.h, a)>>

\* C1: for every parameter set, stage in {1,2,3} and gamma_d in {1.0, 1.3},
\* compute_combinations returns exactly the ordered list of (vertical,
\* horizontal) pairs of section 4.2: 5, 3 and 4 pairs, each equal to its
\* stated formula, in the stated order.
C1_FormulaSets ==
    (CalledCompute /\ call.args.stage \in Stages) =>
        LET a == call.args
            table == Section42(a.stage)
        IN  /\ call.out.raised = "none"
            /\ Len(call.out.value) = Section42Count(a.stage)
            /\ Len(table) = Section42Count(a.stage)
            /\ \A i \in 1..Len(table) : call.out.value[i] = Section42Value(table[i], a)

\* Every load of the call is non-zero and the critical factor is used.
C1_Witness ==
    /\ CalledCompute /\ call.args.stage = "1" /\ call.args.gamma_d = GammaCritical
    /\ call.args.W_u > 0 /\ call.args.F_w > 0
    /\ call.out.value[4][1] > 0

\* The combinations of a stage that gamma_d multiplies (2; 6, 7; 9, 10), as
\* positions in the stage's list.
GammaScaled(stage) == IF stage = "1" THEN {2} ELSE {1, 2}

\* C2: a combination subject to gamma_d has both components at gamma_d = 1.3
\* equal to 1.3 times its components at gamma_d = 1.0; the other combinations
\* (1, 3, 4, 5; 8; 11, 12) have identical values at both factors.
C2_ScalingLaw ==
    (CalledCompute /\ call.args.stage \in Stages) =>
        LET a == call.args
            other == IF a.gamma_d = GammaCritical THEN GammaNonCritical ELSE GammaCritical
            again == Compute([a EXCEPT !.gamma_d = other])
            hi == IF a.gamma_d = GammaCritical THEN call.out.value ELSE again
            lo == IF a.gamma_d = GammaCritical THEN again ELSE call.out.value
        IN  /\ Len(hi) = Len(lo)
            /\ \A i \in 1..Len(hi) :
                  IF i \in GammaScaled(a.stage)
                  THEN 10 * hi[i][1] = 13 * lo[i][1] /\ 10 * hi[i][2] = 13 * lo[i][2]
                  ELSE hi[i] = lo[i]

\* A critical call of stage 2 whose scaled and unscaled combinations are all non-zero.
C2_Witness ==
    /\ CalledCompute /\ call.args.stage = "2" /\ call.args.gamma_d = GammaCritical
    /\ call.args.Q_h > 0
    /\ call.out.value[1][1] > 0 /\ call.out.value[2][2] > 0 /\ call.out.value[3][1] > 0

\* C3: each combination's horizontal component is zero except at the second
\* combination of the stage (2, 7, 10), where it is gamma_d * 1.5 * Q_h.
C3_Horizontal ==
    (CalledCompute /\ call.args.stage \in Stages) =>
        \A i \in 1..Len(call.out.value) :
            call.out.value[i][2] =
                IF i = 2 THEN call.args.gamma_d * (150 * call.args.Q_h) ELSE 0

C3_Witness ==
    /\ CalledCompute /\ call.args.stage = "2" /\ call.args.gamma_d = GammaCritical
    /\ call.args.Q_h > 0 /\ call.args.W_u > 0
    /\ call.out.value[2][2] = 13 * 150 * call.args.Q_h

\* C4: for thickness t >= 0 and reinforcement percentage r >= 0,
\* calculate_concrete_load(t, r) = t * (24 + 0.5 r); it is 0 at t = 0 and
\* 24 t at r = 0.
C4_Estimator ==
    (CalledEstimate /\ call.thickness >= 0 /\ call.reinforcement_percentage >= 0) =>
        LET t == call.thickness
            r == call.reinforcement_percentage
        IN  /\ call.out = Returned(t * (2400 + 5 * r))
            /\ t = 0 => call.out.value = 0
            /\ r = 0 => call.out.value = 2400 * t

\* Both arguments edited away from their defaults and non-zero.
C4_Witness ==
    /\ CalledEstimate
    /\ call.thickness = 3 /\ call.reinforcement_percentage = 25
    /\ call.out.value = 7575

\* C5: compute_combinations with a stage identifier outside {1,2,3} returns
\* an empty sequence and raises nothing.
C5_UnknownStage ==
    (CalledCompute /\ call.args.stage \notin Stages) => call.out = Returned(<<>>)

C5_Witness ==
    /\ CalledCompute /\ call.args.stage = "4" /\ call.args.gamma_d = GammaCritical
    /\ call.args.G_f > 0 /\ call.args.Q_h > 0
    /\ call.out.value = <<>>

\* C6 (as claimed): for a stage in {1,2,3} and an index outside 0..count-1,
\* negative indices included, get_combination_description returns
\* "Combination N" with N = index + 1, and does not fail.
C6_FallbackLabel ==
    (/\ CalledDescribe /\ call.stage \in Stages
     /\ call.index \notin 0..(Section42Count(call.stage) - 1)) =>
        call.out = Returned(GenericLabel(call.index + 1))

\* The symbol a label term names.
Symbol(t) == IF t.sub = "" THEN t.letter ELSE t.letter \o "_" \o t.sub

DigitValue(c) ==
    CASE c = "0" -> 0 [] c = "1" -> 1 [] c = "2" -> 2 [] c = "3" -> 3 [] c = "4" -> 4
      [] c = "5" -> 5 [] c = "6" -> 6 [] c = "7" -> 7 [] c = "8" -> 8 [] c = "9" -> 9

RECURSIVE ParseDigits(_)
ParseDigits(cs) ==
    IF cs = <<>> THEN 0
    ELSE 10 * ParseDigits(SubSeq(cs, 1, Len(cs) - 1)) + DigitValue(cs[Len(cs)])

\* The factor a coefficient text stands for, in hundredths; no text is 1.
ParseCoefficient(cs) ==
    IF cs = <<>> THEN 100
    ELSE LET dot == IF \E i \in 1..Len(cs) : cs[i] = "."
                    THEN CHOOSE i \in 1..Len(cs) : cs[i] = "."
                    ELSE Len(cs) + 1
             whole == SubSeq(cs, 1, dot - 1)
             frac == SubSeq(cs, dot + 1, Len(cs))
         IN  100 * ParseDigits(whole)
             + (IF Len(frac) = 0 THEN 0
                ELSE IF Len(frac) = 1 THEN 10 * ParseDigits(frac)
                ELSE ParseDigits(SubSeq(frac, 1, 2)))

\* The (symbol, factor) pairs a formula label names.
LabelTerms(label) ==
    {<<Symbol(label.terms[k]), ParseCoefficient(label.terms[k].coef)>> : k \in 1..Len(label.terms)}

\* The factor compute_combinations applies to load x in combination i of a
\* stage, read off the engine by a unit load: all loads 0 except x.
UnitLoad(stage, x) ==
    [[t \in LoadTerms \cup {"stage", "gamma_d"} |->
        IF t = "stage" THEN stage ELSE IF t = "gamma_d" THEN GammaNonCritical ELSE 0]
     EXCEPT ![x] = 1]

EngineFactor(stage, i, x) ==
    LET c == Compute(UnitLoad(stage, x))[i] IN (c[1] + c[2]) \div 10

EngineTerms(stage, i) ==
    {<<x, EngineFactor(stage, i, x)>> : x \in {y \in LoadTerms : EngineFactor(stage, i, y) # 0}}

\* The label read as a formula and evaluated on the loads a (millionths, gamma_d = 1.0).
LabelValue(label, a) ==
    LET ts == [k \in 1..Len(label.terms) |->
                  <<ParseCoefficient(label.terms[k].coef), Symbol(label.terms[k])>>]
    IN  10 * WeightedSum(ts, a)

\* C7: for every stage and valid index i, the label of
\* get_combination_description(stage, i) names exactly the load terms, each
\* with the same coefficient, that compute_combinations uses for that
\* combination, and the catalog has as many entries per stage as
\* compute_combinations returns.
C7_CatalogAlignment ==
    (/\ CalledDescribe /\ call.stage \in Stages
     /\ call.index \in 0..(Len(Compute(ArgsOf(widgets, call.stage, GammaNonCritical))) - 1)) =>
        LET a == ArgsOf(widgets, call.stage, GammaNonCritical)
            combos == Compute(a)
            i == call.index + 1
        IN  /\ Len(descriptions(call.stage)) = Len(combos)
            /\ call.out.raised = "none"
            /\ call.out.value.kind = "formula"
            /\ Cardinality(LabelTerms(call.out.value)) = Len(call.out.value.terms)
            /\ LabelTerms(call.out.value) = EngineTerms(call.stage, i)
            /\ LabelValue(call.out.value, a) = combos[i][1] + combos[i][2]

\* The label of combination 11 ("1.0W_u") asked for with W_u and F_w loaded.
C7_Witness ==
    /\ CalledDescribe /\ call.stage = "3" /\ call.index = 2
    /\ call.out.raised = "none" /\ call.out.value.kind = "formula"
    /\ call.out.value.no = 11
    /\ widgets.W_u > 0 /\ widgets.F_w > 0

\* ===================================================================
\* Properties of the session (Spec)
\* ===================================================================

HasResults == session_state.results.tag = "value"
HasInputs == session_state.inputs.tag = "value"
Requested == last_request.tag = "value"

\* C8: after any sequence of Calculate requests, the G_c stored in the input
\* record and the G_c passed to every compute_combinations call of that
\* request equal calculate_concrete_load(thickness, reinforcement_percentage)
\* of the same record.
C8_DerivedConcreteLoad ==
    HasInputs =>
        LET inputs == session_state.inputs.v
            derived == calculate_concrete_load(inputs.thickness, inputs.reinforcement_percentage)
        IN  /\ inputs.G_c = derived
            /\ Requested
            /\ Len(last_request.v.calls) = 6
            /\ \A k \in 1..Len(last_request.v.calls) : last_request.v.calls[k].G_c = derived

\* A request made after thickness and reinforcement percentage were both edited.
C8_Witness ==
    /\ HasInputs /\ Requested
    /\ session_state.inputs.v.thickness = 3
    /\ session_state.inputs.v.reinforcement_percentage = 25
    /\ session_state.inputs.v.G_c = 7575

\* The worker load and the description the specification gives each stage.
StageWorkerLoad(inputs, stage) ==
    IF stage = "1" THEN inputs.Q_w1 ELSE IF stage = "2" THEN inputs.Q_w2 ELSE inputs.Q_w3

StageDescription(stage) ==
    IF stage = "1" THEN "Prior to concrete placement"
    ELSE IF stage = "2" THEN "During concrete placement"
    ELSE "After concrete placement"

\* The ResultSet of a stage for an input record, by the specification.
ResultSetOf(inputs, stage) ==
    LET at(gamma_d) ==
            compute_combinations(inputs.G_f, inputs.G_c, StageWorkerLoad(inputs, stage),
                                 inputs.Q_m, inputs.Q_h, inputs.W_s, inputs.W_u, inputs.F_w,
                                 inputs.Q_x, inputs.P_c, inputs.I, stage, gamma_d)
    IN  [description |-> StageDescription(stage),
         critical |-> at(GammaCritical),
         non_critical |-> at(GammaNonCritical)]

\* C9: after a Calculate request the result structure has an entry for each
\* stage in {1,2,3} and no other; stage s holds its description, a critical
\* list equal to compute_combinations at gamma_d = 1.3 and a non_critical list
\* equal to compute_combinations at gamma_d = 1.0, both with stage s's own
\* worker load; the two lists have equal length.
C9_ResultStructure ==
    (HasResults /\ HasInputs) =>
        LET results == session_state.results.v
            inputs == session_state.inputs.v
        IN  /\ DOMAIN results = Stages
            /\ \A stage \in Stages :
                  /\ DOMAIN results[stage] = {"description", "critical", "non_critical"}
                  /\ results[stage] = ResultSetOf(inputs, stage)
                  /\ Len(results[stage].critical) = Len(results[stage].non_critical)

\* A request whose three worker loads all differ.
C9_Witness ==
    /\ HasResults /\ HasInputs
    /\ session_state.inputs.v.Q_w1 # session_state.inputs.v.Q_w3
    /\ session_state.inputs.v.Q_w2 # session_state.inputs.v.Q_w3
    /\ session_state.inputs.v.Q_w1 # session_state.inputs.v.Q_w2
    /\ session_state.inputs.v.Q_w3 > 0
    /\ Len(session_state.results.v["3"].critical) = 4

\* The input record the specification derives from the widget values w.
InputsOf(w) ==
    [f \in Fields \cup {"G_c"} |->
        IF f = "G_c" THEN calculate_concrete_load(w.thickness, w.reinforcement_percentage)
        ELSE w[f]]

\* What is stored, a missing key counting as nothing stored.
Stored(x) == IF x = Absent THEN None ELSE x

\* The stored results and inputs are both absent, or both those of the most
\* recent Calculate request.
StoredFromLastRequest ==
    /\ HasResults <=> HasInputs
    /\ HasResults <=> Requested
    /\ Requested =>
          /\ session_state.inputs.v = InputsOf(last_request.v.widgets)
          /\ session_state.results.v =
                [stage \in Stages |-> ResultSetOf(InputsOf(last_request.v.widgets), stage)]

\* C10: each Calculate request replaces the stored results and the stored
\* inputs together and entirely, so that the stored results are always those
\* computed from the stored inputs of the most recent Calculate request (both
\* absent or both from the same request), and a script run without a
\* Calculate request leaves both unchanged.
C10_Lifecycle ==
    /\ []StoredFromLastRequest
    /\ [][RunCalculate =>
            /\ session_state'.inputs = Some(InputsOf(widgets))
            /\ session_state'.results =
                  Some([stage \in Stages |-> ResultSetOf(InputsOf(widgets), stage)])]_vars
    /\ [][(\/ RunLoad
            \/ \E f \in Fields : \E v \in WidgetVals(f) : RunEdit(f, v)
            \/ \E name \in ProjectNames : RunEditProject(name)) =>
            /\ Stored(session_state'.results) = Stored(session_state.results)
            /\ Stored(session_state'.inputs) = Stored(session_state.inputs)]_vars

\* A request was made after an edit, and an input was edited again after it.
C10_Witness ==
    /\ HasResults /\ HasInputs /\ Requested
    /\ session_state.inputs.v.G_f # WidgetDefault.G_f
    /\ widgets.G_f = session_state.inputs.v.G_f
    /\ widgets.Q_m # session_state.inputs.v.Q_m

\* The positions on the page of the elements of one kind.
Positions(kind) == {k \in 1..Len(screen.events) : screen.events[k].kind = kind}

\* The result tables a run has to show: both member lists of every stage.
StageTables == Stages \X {"critical", "non_critical"}

\* The position of the table of one stage and member list, 0 when not shown.
TablePosition(t) ==
    LET at == {k \in Positions("dataframe") :
                  screen.events[k].stage = t[1] /\ screen.events[k].members = t[2]}
    IN  IF at = {} THEN 0 ELSE CHOOSE k \in at : \A other \in at : k <= other

\* In the most recent run, storing came first, then every stage table, and
\* only then the report.
TablesBeforeReport ==
    /\ \A k \in Positions("store") :
          /\ k = 1
          /\ Requested
          /\ session_state.inputs = Some(InputsOf(last_request.v.widgets))
          /\ session_state.results =
                Some([stage \in Stages |-> ResultSetOf(InputsOf(last_request.v.widgets), stage)])
    /\ \A r \in Positions("report") :
          /\ HasResults /\ HasInputs
          /\ \A k \in Positions("store") : k < r
          /\ \A t \in StageTables : TablePosition(t) > 0 /\ TablePosition(t) < r
    /\ (screen.report.tag # "none") <=> (Positions("report") # {})
    /\ (screen.report.tag = "raised") <=> (Positions("exception") # {})

\* C11: in every script run the results of a Calculate request are stored and
\* all six stage tables are displayed before report generation is attempted,
\* and a run whose report generation fails ends with the stored results and
\* inputs it had when the report was attempted: those of the request when the
\* run stored one, otherwise those the session held before the run.
C11_ResultsBeforeReport ==
    /\ []TablesBeforeReport
    /\ [][screen'.report.tag = "raised" =>
            /\ session_state'.results.tag = "value"
            /\ session_state'.inputs.tag = "value"
            /\ IF screen'.events[1].kind = "store"
               THEN /\ session_state'.inputs = Some(InputsOf(widgets))
                    /\ session_state'.results =
                          Some([stage \in Stages |-> ResultSetOf(InputsOf(widgets), stage)])
               ELSE session_state' = session_state]_vars

\* A Calculate request on edited inputs whose report generation raised after
\* the request was stored and the tables were shown.
C11_Witness ==
    /\ screen.report.tag = "raised"
    /\ screen.report.error = "ValueError"
    /\ Positions("store") = {1}
    /\ Positions("dataframe") = 2..7
    /\ HasInputs
    /\ session_state.inputs.v.G_f # WidgetDefault.G_f

\* The label of every table position, as get_combination_description gives it.
LabelOf ==
    [stage \in Stages |-> [i \in 0..MaxIndex |-> get_combination_description(stage, i)]]

\* The subscript markup, which the report renders and the page leaves out.
SubTags == {"<sub>", "</sub>"}
IsText(c) == c \notin SubTags
Plain(text) == SelectSeq(text, IsText)

\* The text of every such label: as the catalog holds it, and without markup.
LabelMarkup == [stage \in Stages |-> [i \in 0..MaxIndex |-> LabelText(LabelOf[stage][i].value)]]
LabelPlain == [stage \in Stages |-> [i \in 0..MaxIndex |-> Plain(LabelMarkup[stage][i])]]

\* A two-decimal text shows this value (millionths): nearest hundredth.
Shows(shown, value) == shown * 10000 - value \in -5000..5000

\* The page table and the report table of one displayed result list.
PageTable(e) ==
    create_results_dataframe(session_state.results.v[e.stage][e.members], e.stage, e.gamma_d)
ReportTable(e) == ReportRows(session_state.results.v[e.stage][e.members], e.stage)

\* Row i of a table carries the label of index i - 1 and the i-th pair.
RowShows(row, label, text, pair) ==
    /\ label.raised = "none"
    /\ row.Combination = text
    /\ Shows(row.Vertical, pair[1])
    /\ Shows(row.Horizontal, pair[2])

\* C13: for every stage and result list shown, the interactive table and the
\* report table have exactly one row per combination in list order; row i
\* shows the label get_combination_description(stage, i) (the report with its
\* subscript markup, the page as plain text) next to the i-th combination's
\* vertical and horizontal values to two decimals, and no two rows of a table
\* show the same label.
C13_RowOrder ==
    \A k \in Positions("dataframe") :
        LET e == screen.events[k]
            list == session_state.results.v[e.stage][e.members]
            page == PageTable(e)
            report == ReportTable(e)
        IN  /\ HasResults
            /\ DOMAIN page = 1..Len(list)
            /\ DOMAIN report = 1..Len(list)
            /\ Len(list) <= MaxIndex + 1
            /\ \A i \in 1..Len(list) :
                  LET label == LabelOf[e.stage][i - 1]
                  IN  /\ RowShows(report[i], label, LabelMarkup[e.stage][i - 1], list[i])
                      /\ RowShows(page[i], label, LabelPlain[e.stage][i - 1], list[i])
                      /\ \A j \in 1..Len(list) :
                            j # i => /\ page[j].Combination # page[i].Combination
                                     /\ report[j].Combination # report[i].Combination

\* The six tables and the report of a request with a horizontal load, where
\* two combinations of a list differ in both values and a shown value is rounded.
C13_Witness ==
    /\ screen.report.tag = "link"
    /\ Positions("dataframe") = 2..7
    /\ HasInputs /\ session_state.inputs.v.Q_h > 0
    /\ \E k \in Positions("dataframe") :
          LET e == screen.events[k]
              list == session_state.results.v[e.stage][e.members]
          IN  /\ Len(list) >= 2
              /\ list[1][1] # list[2][1]
              /\ list[1][2] # list[2][2]
              /\ \E i \in 1..Len(list) : PageTable(e)[i].Vertical * 10000 # list[i][1]

\* ===================================================================
\* Properties of the report functions (SpecReport)
\* ===================================================================

\* A call that fetched the logo, what the URLs answered, and what
\* download_logo did in it.
CalledLogo == call.fn \in {"download_logo", "draw_header_footer", "generate_pdf_report"}
LogoOf(c) == IF c.fn = "download_logo" THEN c.out ELSE c.logo
PrimaryFailed(net) == net[1] \in Failures
BothFailed(net) == net[1] \in Failures /\ net[2] \in Failures

\* C12: download_logo asks the primary URL first and the fallback URL only
\* when the primary attempt failed, stops at the first success, never raises,
\* and returns no logo when both attempts failed; in that case the header is
\* drawn without a logo and report generation completes.
C12_LogoFallback ==
    CalledLogo =>
        LET logo == LogoOf(call)
            net == call.net
        IN  /\ logo.raised = "none"
            /\ logo.asked[1] = LOGO_URL
            /\ Len(logo.asked) = (IF PrimaryFailed(net) THEN 2 ELSE 1)
            /\ PrimaryFailed(net) => logo.asked[2] = FALLBACK_LOGO_URL
            /\ BothFailed(net) => logo.value = None
            /\ (BothFailed(net) /\ call.fn = "draw_header_footer") =>
                  /\ call.out.raised = "none"
                  /\ ~call.out.logo_drawn
            /\ (BothFailed(net) /\ call.fn = "generate_pdf_report"
                    /\ WellFormed(call.project_name)) =>
                  /\ call.out.raised = "none"
                  /\ ~call.out.value.logo_drawn

====
